---- MODULE Spec2Model ----
(***************************************************************************)
(* Model of the near_bmi contract (src/src/lib.rs): the Contract aggregate *)
(* with its user registry `app_user`, its measurement map `data`, and the  *)
(* four entry points compute, set_user, get_data and delete_data.          *)
(*                                                                         *)
(* f32 values are modelled bit-exactly for the non-negative range the      *)
(* entry points see: a value is zero, a normal number m * 2^e with         *)
(* 2^23 <= m < 2^24, +infinity or NaN, and every arithmetic step rounds to *)
(* nearest, ties to even, as IEEE-754 binary32 does.  Heights are          *)
(* non-negative whole centimetres, so no negative, subnormal or            *)
(* overflowing intermediate value arises.                                  *)
(***************************************************************************)
EXTENDS Naturals, Integers, Sequences, FiniteSets, TLC

VARIABLES uid, app_user, data, last

vars == <<uid, app_user, data, last>>

(***************************************************************************)
(* Bounds of the model.                                                    *)
(***************************************************************************)
\* in the specification SpecBmi compute is applied to every weight
\* 0..MaxWeight and to the heights 0 and MinHeight..MaxHeight.
MaxWeight == 92
MinHeight == 100
MaxHeight == 136
\* the lifecycle specification Spec draws weights and heights from the
\* first NumWeights / NumHeights entries of the sample lists below.
NumWeights == 2
NumHeights == 1

WeightSamples == <<45, 92, 36, 70, 0>>
HeightSamples == <<125, 136, 120, 175, 0>>

Weights == {WeightSamples[i] : i \in 1..NumWeights}
Heights == {HeightSamples[i] : i \in 1..NumHeights}

BmiWeights == 0..MaxWeight
BmiHeights == {0} \cup (MinHeight..MaxHeight)

Accounts == {"kherld.testnet", "alice.testnet"}
Owners == {"kherld.testnet"}
Names == {"Eternity Pro ", "Alice"}

(***************************************************************************)
(* Option<T>: None is the empty sequence, Some(x) the one-element one.     *)
(***************************************************************************)
None == <<>>
Some(x) == <<x>>
Permits == {None, Some(TRUE), Some(FALSE)}

(***************************************************************************)
(* IEEE-754 binary32 arithmetic on non-negative values.                    *)
(***************************************************************************)
I32Max == 2147483647

RECURSIVE Pow2Rec(_)
Pow2Rec(n) == IF n = 0 THEN 1 ELSE 2 * Pow2Rec(n - 1)

Pow2Tab == [n \in 0..30 |-> Pow2Rec(n)]

\* 2^n for 0 <= n <= 30
Pow2(n) == Pow2Tab[n]

RECURSIVE BitLen(_)
BitLen(n) == IF n = 0 THEN 0 ELSE 1 + BitLen(n \div 2)

F32Zero == [k |-> "zero", m |-> 0, e |-> 0]
F32Inf == [k |-> "inf", m |-> 0, e |-> 0]
F32NaN == [k |-> "nan", m |-> 0, e |-> 0]

\* the binary32 nearest to (sig + f) * 2^exp, where 0 <= f < 1 and f > 0
\* exactly when sticky; sig has at least 25 bits whenever sticky is set.
RoundNE(sig, exp, sticky) ==
  LET n == BitLen(sig)
  IN IF n <= 24
     THEN [k |-> "fin", m |-> sig * Pow2(24 - n), e |-> exp - (24 - n)]
     ELSE LET s == n - 24
              q == sig \div Pow2(s)
              rem == sig % Pow2(s)
              half == Pow2(s - 1)
              up == \/ rem > half
                    \/ rem = half /\ (sticky \/ q % 2 = 1)
              r == IF up THEN q + 1 ELSE q
              m2 == IF r = Pow2(24) THEN Pow2(23) ELSE r
              e2 == IF r = Pow2(24) THEN exp + s + 1 ELSE exp + s
          IN IF e2 + 23 > 127 THEN F32Inf
             ELSE [k |-> "fin", m |-> m2, e |-> e2]

\* `weight as f32`
U32ToF32(n) == IF n = 0 THEN F32Zero ELSE RoundNE(n, 0, FALSE)

\* n further quotient bits of r / d by restoring division: <<quotient, remainder>>
RECURSIVE DivBits(_, _, _, _)
DivBits(r, d, n, q) ==
  IF n = 0 THEN <<q, r>>
  ELSE IF 2 * r >= d THEN DivBits(2 * r - d, d, n - 1, 2 * q + 1)
       ELSE DivBits(2 * r, d, n - 1, 2 * q)

\* a / b
F32Div(a, b) ==
  IF a.k = "nan" \/ b.k = "nan" THEN F32NaN
  ELSE IF (a.k = "zero" /\ b.k = "zero") \/ (a.k = "inf" /\ b.k = "inf") THEN F32NaN
  ELSE IF b.k = "zero" \/ a.k = "inf" THEN F32Inf
  ELSE IF a.k = "zero" \/ b.k = "inf" THEN F32Zero
  ELSE LET qr == DivBits(a.m % b.m, b.m, 26, a.m \div b.m)
       IN RoundNE(qr[1], a.e - b.e - 26, qr[2] # 0)

\* a * b
F32Mul(a, b) ==
  IF a.k = "nan" \/ b.k = "nan" THEN F32NaN
  ELSE IF (a.k = "zero" /\ b.k = "inf") \/ (a.k = "inf" /\ b.k = "zero") THEN F32NaN
  ELSE IF a.k = "inf" \/ b.k = "inf" THEN F32Inf
  ELSE IF a.k = "zero" \/ b.k = "zero" THEN F32Zero
  ELSE LET ah == a.m \div 4096
           al == a.m % 4096
           bh == b.m \div 4096
           bl == b.m % 4096
           mid == ah * bl + al * bh
           low == (mid % 4096) * 4096 + al * bl
           lo24 == low % Pow2(24)
           hi == ah * bh + mid \div 4096 + low \div Pow2(24)
       IN RoundNE(hi * 4 + lo24 \div Pow2(22), a.e + b.e + 22, lo24 % Pow2(22) # 0)

\* f32::powi(2): one correctly rounded product
F32Powi2(a) == F32Mul(a, a)

\* f32::trunc
F32Trunc(a) ==
  IF a.k # "fin" \/ a.e >= 0 THEN a
  ELSE IF -a.e >= 24 THEN F32Zero
  ELSE U32ToF32(a.m \div Pow2(-a.e))

\* `x as i32`: truncating, saturating, NaN to 0
F32ToI32(a) ==
  IF a.k = "nan" \/ a.k = "zero" THEN 0
  ELSE IF a.k = "inf" THEN I32Max
  ELSE IF a.e >= 8 THEN I32Max
  ELSE IF a.e >= 0 THEN a.m * Pow2(a.e)
  ELSE IF -a.e >= 24 THEN 0
  ELSE a.m \div Pow2(-a.e)

\* variant: a comparison with a NaN operand holds
F32Lt_unordered(a, b) ==
  IF a.k = "nan" \/ b.k = "nan" THEN TRUE
  ELSE IF a.k = "inf" THEN FALSE
  ELSE IF b.k = "inf" THEN TRUE
  ELSE IF b.k = "zero" THEN FALSE
  ELSE IF a.k = "zero" THEN TRUE
  ELSE a.e < b.e \/ (a.e = b.e /\ a.m < b.m)

\* a < b and a <= b (false whenever a NaN is involved)
F32Lt(a, b) ==
  IF a.k = "nan" \/ b.k = "nan" THEN FALSE
  ELSE IF a.k = "inf" THEN FALSE
  ELSE IF b.k = "inf" THEN TRUE
  ELSE IF b.k = "zero" THEN FALSE
  ELSE IF a.k = "zero" THEN TRUE
  ELSE a.e < b.e \/ (a.e = b.e /\ a.m < b.m)

F32Le(a, b) ==
  IF a.k = "nan" \/ b.k = "nan" THEN FALSE ELSE a = b \/ F32Lt(a, b)

\* the f32 literals of compute: a decimal literal is the binary32 nearest
\* to its value, which is what the correctly rounded quotient yields.
Lit100 == U32ToF32(100)
Lit18_5 == F32Div(U32ToF32(185), U32ToF32(10))
Lit24_9 == F32Div(U32ToF32(249), U32ToF32(10))
Lit25_0 == U32ToF32(25)
Lit29_9 == F32Div(U32ToF32(299), U32ToF32(10))

(***************************************************************************)
(* Contract::compute, lines 91-143, split into its steps.                  *)
(***************************************************************************)
\* lines 96-99: height / 100.0, then weight as f32 / height.powi(2)
raw_bmi(weight, height) ==
  F32Div(U32ToF32(weight), F32Powi2(F32Div(height, Lit100)))

\* line 102: ((bmi * 100f32).trunc() / 100.0) as i32
n_bmi(bmi) == F32ToI32(F32Div(F32Trunc(F32Mul(bmi, Lit100)), Lit100))

\* lines 109-114: the arm of the match that is taken, 1..4
match_arm(bmi) ==
  IF F32Lt(bmi, Lit18_5) THEN 1
  ELSE IF F32Le(Lit18_5, bmi) /\ F32Le(bmi, Lit24_9) THEN 2
  ELSE IF F32Le(Lit25_0, bmi) /\ F32Le(bmi, Lit29_9) THEN 3
  ELSE 4

\* lines 110-113: the text each arm logs after the signer's name
arm_text(arm) ==
  IF arm = 1 THEN " You are Underweight  "
  ELSE IF arm = 2 THEN " You are Underweight  "
  ELSE IF arm = 3 THEN " You are Underweight  "
  ELSE " You are Obese  "

\* HashMap::insert and HashMap::remove on a map kept as a function
MapInsert(map, key, val) ==
  [k \in DOMAIN map \cup {key} |-> IF k = key THEN val ELSE map[k]]

MapRemove(map, key) == [k \in DOMAIN map \ {key} |-> map[k]]

\* Data::new, lines 38-40
Data_new(d_uid, bmi) == [uid |-> d_uid, bmi |-> bmi]

\* variant: a granted call replaces a measurement that is already stored
compute_data_overwrite(d, signer, bmi, permit) ==
  IF permit = None THEN d
  ELSE IF permit[1] THEN MapInsert(d, signer, Data_new(signer, bmi))
       ELSE d

\* variant: the consent flag is tested the wrong way round
compute_data_flipped(d, signer, bmi, permit) ==
  IF permit = None THEN d
  ELSE IF permit[1] THEN d
       ELSE IF signer \in DOMAIN d THEN d
            ELSE MapInsert(d, signer, Data_new(signer, bmi))

\* variant: the measurement is filed under the contract owner's uid
compute_data_owner_key(d, signer, bmi, permit) ==
  IF permit = None THEN d
  ELSE IF permit[1]
       THEN IF signer \in DOMAIN d THEN d
            ELSE MapInsert(d, uid, Data_new(signer, bmi))
       ELSE d

\* variant: only a registered signer gets a measurement stored
compute_data_registered_only(d, signer, bmi, permit) ==
  IF permit = None THEN d
  ELSE IF permit[1]
       THEN IF signer \in DOMAIN d \/ signer \notin DOMAIN app_user THEN d
            ELSE MapInsert(d, signer, Data_new(signer, bmi))
       ELSE d

\* lines 118-140: the measurement map after the permit match
compute_data(d, signer, bmi, permit) ==
  IF permit = None THEN d
  ELSE IF permit[1]
       THEN IF signer \in DOMAIN d THEN d
            ELSE MapInsert(d, signer, Data_new(signer, bmi))
       ELSE d

\* lines 118-140: what the permit match logs
compute_permit_logs(d, signer, permit) ==
  IF permit = None THEN <<>>
  ELSE IF permit[1]
       THEN IF signer \in DOMAIN d THEN << <<"We've got your data">> >>
            ELSE << <<"Permission Accepted">>,
                    <<"BIOSECURITY MEASURES ARE IN EFFECT">> >>
       ELSE << <<"Kindly accept Permission to secure your Data">> >>

\* lines 96-114 evaluated once for every weight and height the
\* specifications draw: the raw bmi, the integer of line 102 and the arm of
\* the match.  (@@ makes each level an explicit, tabulated function.)
compute_table ==
  <<>> @@ [w \in BmiWeights \cup Weights |->
    <<>> @@ [h \in BmiHeights \cup Heights |->
      LET bmi == raw_bmi(w, U32ToF32(h))
      IN [bmi |-> bmi, n_bmi |-> n_bmi(bmi), arm |-> match_arm(bmi)]]]

NoCall ==
  [op |-> "new", signer |-> "", uid |-> "", u_name |-> "", weight |-> 0,
   height |-> 0, permit |-> None, ret |-> 0, msg |-> None, logs |-> <<>>]

\* variant: a call without granted consent returns before line 142, with 0
compute_early_return(signer, weight, height, permit) ==
  LET c == compute_table[weight][height]
      ret == IF permit = Some(TRUE) THEN c.n_bmi ELSE 0
  IN /\ data' = compute_data(data, signer, c.bmi, permit)
     /\ last' = [NoCall EXCEPT !.op = "compute", !.signer = signer,
                   !.weight = weight, !.height = height, !.permit = permit,
                   !.ret = ret,
                   !.logs = << <<signer, arm_text(c.arm)>>,
                               <<"BMI: ", ret>> >>
                             \o compute_permit_logs(data, signer, permit)]
     /\ UNCHANGED <<uid, app_user>>

\* one call of compute by `signer`; height is a whole number of centimetres
compute(signer, weight, height, permit) ==
  LET c == compute_table[weight][height]
      bmi == c.bmi
      ret == c.n_bmi
  IN /\ data' = compute_data(data, signer, bmi, permit)
     /\ last' = [NoCall EXCEPT !.op = "compute", !.signer = signer,
                   !.weight = weight, !.height = height, !.permit = permit,
                   !.ret = ret,
                   !.logs = << <<signer, arm_text(c.arm)>>,
                               <<"BMI: ", ret>> >>
                             \o compute_permit_logs(data, signer, permit)]
     /\ UNCHANGED <<uid, app_user>>

(***************************************************************************)
(* Contract::set_user, lines 145-158.                                      *)
(***************************************************************************)
\* variant: the display name is taken for the uid
AppUser_new_user_name_as_uid(id, signer, u_name) ==
  [id |-> id, uid |-> u_name, u_name |-> Some(u_name)]

\* AppUser::new_user, lines 21-27: uid is the signer of the call
AppUser_new_user(id, signer, u_name) ==
  [id |-> id, uid |-> signer, u_name |-> Some(u_name)]

\* variant: a second registration replaces the profile
set_user_map_overwrite(au, signer, u_name) ==
  MapInsert(au, signer, AppUser_new_user(Cardinality(DOMAIN au), signer, u_name))

\* variant: ids are counted from one
set_user_map_from_one(au, signer, u_name) ==
  LET id == Cardinality(DOMAIN au) + 1
  IN IF signer \in DOMAIN au THEN au
     ELSE MapInsert(au, signer, AppUser_new_user(id, signer, u_name))

\* the registry after set_user
set_user_map(au, signer, u_name) ==
  LET id == Cardinality(DOMAIN au)
  IN IF signer \in DOMAIN au THEN au
     ELSE MapInsert(au, signer, AppUser_new_user(id, signer, u_name))

set_user(signer, u_name) ==
  /\ app_user' = set_user_map(app_user, signer, u_name)
  /\ last' = [NoCall EXCEPT !.op = "set_user", !.signer = signer,
                !.u_name = u_name,
                !.logs = IF signer \in DOMAIN app_user
                         THEN << <<"The provided uid is already in use by an existing user">> >>
                         ELSE << <<"Data set successfully">> >>]
  /\ UNCHANGED <<uid, data>>

(***************************************************************************)
(* Contract::get_data, lines 161-173.  The formatted string is kept as its *)
(* pieces: the prefix, the f32 that `{}` prints, and the stored uid.       *)
(***************************************************************************)
get_data_ret(d, key) ==
  IF key \in DOMAIN d
  THEN Some(<<"BMI Data: ", d[key].bmi, " ", d[key].uid>>)
  ELSE None

\* variant: the measurement is taken out of the map when it is read
get_data_takes(signer, key) ==
  /\ last' = [NoCall EXCEPT !.op = "get_data", !.signer = signer,
                !.uid = key, !.msg = get_data_ret(data, key),
                !.logs = IF key \in DOMAIN data THEN <<>>
                         ELSE << <<"No Data Found">> >>]
  /\ data' = MapRemove(data, key)
  /\ UNCHANGED <<uid, app_user>>

get_data(signer, key) ==
  /\ last' = [NoCall EXCEPT !.op = "get_data", !.signer = signer,
                !.uid = key, !.msg = get_data_ret(data, key),
                !.logs = IF key \in DOMAIN data THEN <<>>
                         ELSE << <<"No Data Found">> >>]
  /\ UNCHANGED <<uid, app_user, data>>

(***************************************************************************)
(* Contract::delete_data, lines 175-187.                                   *)
(***************************************************************************)
\* variant: any supplied flag, true or false, deletes
delete_data_map_any_flag(d, signer, key, permit) ==
  IF permit = None THEN d ELSE MapRemove(d, key)

\* variant: the signer's own entry is removed, not the one named by uid
delete_data_map_signer_key(d, signer, key, permit) ==
  IF permit = None THEN d
  ELSE IF permit[1] THEN MapRemove(d, signer)
       ELSE d

\* variant: a granted delete empties the whole map
delete_data_map_clear(d, signer, key, permit) ==
  IF permit = None THEN d
  ELSE IF permit[1] THEN <<>>
       ELSE d

\* variant: a granted delete logs but removes nothing
delete_data_map_keeps(d, signer, key, permit) == d

delete_data_map(d, signer, key, permit) ==
  IF permit = None THEN d
  ELSE IF permit[1] THEN MapRemove(d, key)
       ELSE d

\* variant: a granted delete also drops the profile registered under uid
delete_data_unregisters(signer, key, permit) ==
  /\ data' = delete_data_map(data, signer, key, permit)
  /\ app_user' = IF permit = Some(TRUE) THEN MapRemove(app_user, key) ELSE app_user
  /\ last' = [NoCall EXCEPT !.op = "delete_data", !.signer = signer,
                !.uid = key, !.permit = permit,
                !.logs = IF permit = None THEN <<>>
                         ELSE IF permit[1] THEN << <<"Your Data Is Delete">> >>
                         ELSE << <<"Kindly accept Permission to delete your Data">> >>]
  /\ UNCHANGED uid

delete_data(signer, key, permit) ==
  /\ data' = delete_data_map(data, signer, key, permit)
  /\ last' = [NoCall EXCEPT !.op = "delete_data", !.signer = signer,
                !.uid = key, !.permit = permit,
                !.logs = IF permit = None THEN <<>>
                         ELSE IF permit[1] THEN << <<"Your Data Is Delete">> >>
                         ELSE << <<"Kindly accept Permission to delete your Data">> >>]
  /\ UNCHANGED <<uid, app_user>>

(***************************************************************************)
(* The contract under any sequence of calls.                               *)
(***************************************************************************)
\* Contract::new, lines 76-84
Init ==
  /\ uid \in Owners
  /\ app_user = <<>>
  /\ data = <<>>
  /\ last = NoCall

ComputeCall ==
  \E signer \in Accounts, weight \in Weights, height \in Heights, permit \in Permits :
    compute(signer, weight, height, permit)

SetUserCall == \E signer \in Accounts, u_name \in Names : set_user(signer, u_name)

GetDataCall == \E signer \in Accounts, key \in Accounts : get_data(signer, key)

DeleteDataCall ==
  \E signer \in Accounts, key \in Accounts, permit \in Permits :
    delete_data(signer, key, permit)

Next == ComputeCall \/ SetUserCall \/ GetDataCall \/ DeleteDataCall

Spec == Init /\ [][Next]_vars

(***************************************************************************)
(* compute on a freshly constructed contract, as compute_data_test calls   *)
(* it (lines 220-235), over every weight and height up to the bounds.      *)
(***************************************************************************)
ComputeOnce ==
  /\ last.op = "new"
  /\ \E weight \in BmiWeights, height \in BmiHeights, permit \in Permits :
       compute(uid, weight, height, permit)

SpecBmi == Init /\ [][ComputeOnce]_vars

(***************************************************************************)
(* Properties.                                                             *)
(***************************************************************************)
Size(map) == Cardinality(DOMAIN map)

\* the raw bmi of the compute call recorded in `last`
LastBmi == compute_table[last.weight][last.height].bmi

\* the category a classification log line names
ReportedCategory(text) ==
  IF text = " You are Underweight  " THEN "Underweight"
  ELSE IF text = " You are Normal  " THEN "Normal"
  ELSE IF text = " You are Overweight  " THEN "Overweight"
  ELSE IF text = " You are Obese  " THEN "Obese"
  ELSE "none"

LastCategory == ReportedCategory(last.logs[1][2])

\* C1: a compute or delete_data call whose permit is Some(false) or None
\* leaves the measurement map exactly as it was.
C1_NoConsentLeavesData ==
  [][(/\ last'.op \in {"compute", "delete_data"}
      /\ last'.permit \in {None, Some(FALSE)})
     => data' = data]_vars

\* a denied delete_data was aimed at a stored measurement, which is still there
C1_Witness ==
  /\ last.op = "delete_data"
  /\ last.permit = Some(FALSE)
  /\ last.uid \in DOMAIN data

\* C2: a delete_data call leaves the measurement of every identity other
\* than its signer present and unchanged.
C2_OnlySignerErases ==
  [][last'.op = "delete_data"
     => \A a \in DOMAIN data :
          a # last'.signer => (a \in DOMAIN data' /\ data'[a] = data[a])]_vars

\* C3: a granted compute by a signer who already has a measurement leaves
\* the measurement map unchanged (write-once).
C3_WriteOnce ==
  [][(/\ last'.op = "compute"
      /\ last'.permit = Some(TRUE)
      /\ last'.signer \in DOMAIN data)
     => data' = data]_vars

\* a granted compute with a different bmi came second and the first bmi stayed
C3_Witness ==
  /\ last.op = "compute"
  /\ last.permit = Some(TRUE)
  /\ last.signer \in DOMAIN data
  /\ data[last.signer].bmi # LastBmi

\* C4: set_user by a signer who already has a profile leaves the registry,
\* its size and that profile unchanged.
C4_SetUserRejectsDuplicate ==
  [][(last'.op = "set_user" /\ last'.signer \in DOMAIN app_user)
     => /\ Size(app_user') = Size(app_user)
        /\ last'.signer \in DOMAIN app_user'
        /\ app_user'[last'.signer] = app_user[last'.signer]
        /\ app_user' = app_user]_vars

\* a second set_user with another display name was rejected
C4_Witness ==
  /\ last.op = "set_user"
  /\ last.logs = << <<"The provided uid is already in use by an existing user">> >>
  /\ last.signer \in DOMAIN app_user
  /\ app_user[last.signer].u_name # Some(last.u_name)

\* the ids of the registered profiles are pairwise distinct and exactly 0..n-1
IdsDense ==
  /\ {app_user[k].id : k \in DOMAIN app_user} = 0..(Size(app_user) - 1)
  /\ \A j, k \in DOMAIN app_user : app_user[j].id = app_user[k].id => j = k

\* C5: set_user by a signer with no profile inserts exactly one profile,
\* whose id is the registry size before the call; the ids of the n
\* profiles are always pairwise distinct and exactly 0..n-1.
C5_SequenceIds ==
  /\ []IdsDense
  /\ [][(last'.op = "set_user" /\ last'.signer \notin DOMAIN app_user)
        => /\ DOMAIN app_user' = DOMAIN app_user \cup {last'.signer}
           /\ app_user'[last'.signer].id = Size(app_user)
           /\ \A k \in DOMAIN app_user : app_user'[k] = app_user[k]]_vars

\* both accounts are registered, the second one by the call just made
C5_Witness ==
  /\ last.op = "set_user"
  /\ Size(app_user) = 2
  /\ app_user[last.signer].id = 1

\* C6: two consecutive compute calls with the same weight and height return
\* the same integer, whatever their permits, signers and stored measurements.
C6_ReturnIgnoresConsent ==
  [][(/\ last.op = "compute"
      /\ last'.op = "compute"
      /\ last'.weight = last.weight
      /\ last'.height = last.height)
     => last'.ret = last.ret]_vars

\* a denied compute by a signer with a stored measurement returned a bmi
C6_Witness ==
  /\ last.op = "compute"
  /\ last.permit = Some(FALSE)
  /\ last.signer \in DOMAIN data
  /\ last.ret > 0

\* C7: for weight > 0 and height > 0 compute returns the integer part of
\* 10000 * weight / height^2.
C7_IntegerPart ==
  (last.op = "compute" /\ last.weight > 0 /\ last.height > 0)
  => last.ret = (10000 * last.weight) \div (last.height * last.height)

\* the four ranges of the classification over the raw bmi
InUnderweight(bmi) == F32Lt(bmi, Lit18_5)
InNormal(bmi) == F32Le(Lit18_5, bmi) /\ F32Le(bmi, Lit24_9)
InOverweight(bmi) == F32Le(Lit25_0, bmi) /\ F32Le(bmi, Lit29_9)
InObese(bmi) == F32Le(U32ToF32(30), bmi)

\* C8: for height > 0 the raw bmi is in exactly one of the four ranges, and
\* Obese is reported only for a raw bmi of at least 30.0.
C8_ObeseOnlyFrom30 ==
  (last.op = "compute" /\ last.height > 0)
  => /\ Cardinality({r \in 1..4 :
                       \/ r = 1 /\ InUnderweight(LastBmi)
                       \/ r = 2 /\ InNormal(LastBmi)
                       \/ r = 3 /\ InOverweight(LastBmi)
                       \/ r = 4 /\ InObese(LastBmi)}) = 1
     /\ (LastCategory = "Obese" => InObese(LastBmi))

\* C9: a raw bmi below 18.5 is reported as Underweight, one in [18.5, 24.9]
\* as Normal and one in [25.0, 29.9] as Overweight.
C9_ThreeLabels ==
  (last.op = "compute" /\ last.height > 0)
  => /\ (InUnderweight(LastBmi) => LastCategory = "Underweight")
     /\ (InNormal(LastBmi) => LastCategory = "Normal")
     /\ (InOverweight(LastBmi) => LastCategory = "Overweight")

\* C10: get_data(c) called right after a granted compute by c returns Some
\* of the string built from the measurement stored under c, with c in it.
C10_GetAfterGrantedCompute ==
  [][(/\ last.op = "compute"
      /\ last.permit = Some(TRUE)
      /\ last'.op = "get_data"
      /\ last'.uid = last.signer)
     => /\ last'.msg # None
        /\ last.signer \in DOMAIN data
        /\ last'.msg = Some(<<"BMI Data: ", data[last.signer].bmi, " ", last.signer>>)]_vars

\* get_data returned the caller's own measurement
C10_Witness ==
  /\ last.op = "get_data"
  /\ last.uid = last.signer
  /\ last.msg # None
  /\ last.msg[1][4] = last.signer

\* every measurement stored under an identity other than `key` is the same
\* before and after the step
OthersKept(key) ==
  \A a \in (DOMAIN data \cup DOMAIN data') \ {key} :
    a \in DOMAIN data /\ a \in DOMAIN data' /\ data'[a] = data[a]

\* C11: a granted delete_data(u) removes u's measurement and leaves every
\* other measurement unchanged, and get_data(u) called next returns None.
C11_GetAfterGrantedDelete ==
  /\ [][(last'.op = "delete_data" /\ last'.permit = Some(TRUE))
        => (last'.uid \notin DOMAIN data' /\ OthersKept(last'.uid))]_vars
  /\ [][(/\ last.op = "delete_data"
         /\ last.permit = Some(TRUE)
         /\ last'.op = "get_data"
         /\ last'.uid = last.uid)
        => last'.msg = None]_vars

\* a granted delete has removed one measurement while another one remains
C11_Witness ==
  /\ last.op = "delete_data"
  /\ last.permit = Some(TRUE)
  /\ last.uid \notin DOMAIN data
  /\ Size(data) = 1

\* C12: a granted delete_data on an identity with no stored measurement
\* leaves data, app_user and the owner uid unchanged.
C12_DeleteAbsentIsNoOp ==
  [][(/\ last'.op = "delete_data"
      /\ last'.permit = Some(TRUE)
      /\ last'.uid \notin DOMAIN data)
     => (data' = data /\ app_user' = app_user /\ uid' = uid)]_vars

\* a granted delete_data was made on the freshly constructed, empty contract
\* as in delete_data_test, or on a contract holding only other entries
C12_Witness ==
  /\ last.op = "delete_data"
  /\ last.permit = Some(TRUE)
  /\ last.signer = last.uid
  /\ last.logs = << <<"Your Data Is Delete">> >>
  /\ DOMAIN data = Accounts \ {last.uid}
  /\ app_user # <<>>

\* C13: get_data changes nothing of the contract, returns Some exactly when
\* data holds a measurement under the given uid, and returns None for every
\* uid on a freshly constructed contract.
C13_GetDataIsPureRead ==
  /\ [][last'.op = "get_data"
        => /\ data' = data /\ app_user' = app_user /\ uid' = uid
           /\ ((last'.msg # None) <=> (last'.uid \in DOMAIN data))]_vars
  /\ [][(last.op = "new" /\ last'.op = "get_data") => last'.msg = None]_vars

\* get_data returned another account's measurement and the map still has it
C13_Witness ==
  /\ last.op = "get_data"
  /\ last.uid # last.signer
  /\ last.msg # None
  /\ last.uid \in DOMAIN data

\* C14: compute with height 0 completes for every weight, returns an
\* integer, has an infinite or NaN bmi and reports the Obese category.
C14_ZeroHeightIsObese ==
  (last.op = "compute" /\ last.height = 0)
  => /\ last.ret \in Int
     /\ LastBmi.k \in {"inf", "nan"}
     /\ LastCategory = "Obese"

\* compute(0, 0.0) was called: the bmi is 0.0 / 0.0
C14_Witness ==
  /\ last.op = "compute"
  /\ last.height = 0
  /\ last.weight = 0
  /\ LastBmi = F32NaN

\* C15: a compute call changes at most the measurement keyed by its signer;
\* other measurements, the registry and the owner uid are unchanged.
C15_ComputeFrame ==
  [][last'.op = "compute"
     => (OthersKept(last'.signer) /\ app_user' = app_user /\ uid' = uid)]_vars

\* a granted compute stored the second measurement next to a registry entry
C15_Witness ==
  /\ last.op = "compute"
  /\ last.permit = Some(TRUE)
  /\ last.logs[3] = <<"Permission Accepted">>
  /\ DOMAIN data = Accounts
  /\ app_user # <<>>

\* C16: every measurement and every profile carries as uid the key it is
\* stored under.
C16_UidIsKey ==
  /\ \A k \in DOMAIN data : data[k].uid = k
  /\ \A k \in DOMAIN app_user : app_user[k].uid = k

\* both maps hold an entry for every account
C16_Witness == DOMAIN data = Accounts /\ DOMAIN app_user = Accounts

\* C17: a profile, once registered, stays in the registry unchanged under
\* every call, and the registry size never decreases.
C17_RegistrationIsPermanent ==
  [][/\ \A k \in DOMAIN app_user :
          k \in DOMAIN app_user' /\ app_user'[k] = app_user[k]
     /\ Size(app_user') >= Size(app_user)]_vars

\* a granted delete_data named a registered account and its profile is there
C17_Witness ==
  /\ last.op = "delete_data"
  /\ last.permit = Some(TRUE)
  /\ last.uid \in DOMAIN app_user
  /\ Size(app_user) = 2

C19_ComputeIgnoresRegistry ==
  [][last'.op = "compute"
     => /\ last'.ret = compute_table[last'.weight][last'.height].n_bmi
        /\ IF last'.permit = Some(TRUE) /\ last'.signer \notin DOMAIN data
           THEN /\ DOMAIN data' = DOMAIN data \cup {last'.signer}
                /\ data'[last'.signer] =
                     [uid |-> last'.signer,
                      bmi |-> compute_table[last'.weight][last'.height].bmi]
                /\ OthersKept(last'.signer)
           ELSE data' = data]_vars

\* a signer with no profile has a measurement stored by the call just made
C19_Witness ==
  /\ last.op = "compute"
  /\ last.permit = Some(TRUE)
  /\ last.logs[3] = <<"Permission Accepted">>
  /\ last.signer \in DOMAIN data
  /\ last.signer \notin DOMAIN app_user
  /\ app_user # <<>>

====
